---------------------------- MODULE Spec2Model ----------------------------
(***************************************************************************)
(* A model of the SQL parser of src/modules/parser.mjs.                    *)
(*                                                                         *)
(* The file holds two bodies of code.  Lines 1-225 are the pipeline        *)
(*   parse = tokens => syntaticAnalysis(lexicalAnalysis(tokens))           *)
(* over raw token strings.  Lines 227-553 are the SELECT builder (columns, *)
(* FROM, WHERE, UNION) over already classified tokens; it calls a          *)
(* dispatcher `walk`, a quote test and tables of constants that are        *)
(* imported from files which are not part of the source at hand.           *)
(*                                                                         *)
(* JavaScript values are modelled as records, so that values of different  *)
(* kinds can stand in the same place:                                      *)
(*   undefined        [undefined |-> TRUE]                                 *)
(*   null             [null |-> TRUE]                                      *)
(*   a string s       [string |-> s]                                       *)
(*   an array a       [array |-> a]                                        *)
(*   an object        a record of its properties; `type`, always a string  *)
(*                    where present, is kept as a plain string             *)
(*   a thrown error   [error |-> kind]                                     *)
(* Array indices are the 0-based indices of the code.                      *)
(***************************************************************************)
EXTENDS Integers, Sequences, FiniteSets, TLC

VARIABLES input, pc, out

vars == <<input, pc, out>>

---------------------------------------------------------------------------
(* JavaScript values *)

Undefined == [undefined |-> TRUE]

Null == [null |-> TRUE]

Str(s) == [string |-> s]

Arr(a) == [array |-> a]

Thrown(kind) == [error |-> kind]

TypeError == Thrown("TypeError")

IsUndefined(v) == "undefined" \in DOMAIN v

IsNull(v) == "null" \in DOMAIN v

IsStr(v) == "string" \in DOMAIN v

IsArr(v) == "array" \in DOMAIN v

IsThrown(v) == "error" \in DOMAIN v

\* tokens[i]: undefined outside the array
At(tokens, i) == IF i >= 0 /\ i < Len(tokens) THEN tokens[i + 1] ELSE Undefined

\* v?.type: "undefined" stands for the value undefined (no type tag is that string)
TypeOf(v) == IF "type" \in DOMAIN v THEN v.type ELSE "undefined"

\* v.p of an object: undefined when the object has no such property
Get(v, p) == IF p \in DOMAIN v THEN v[p] ELSE Undefined

---------------------------------------------------------------------------
(* Strings: characters are strings of length one *)

CharAt(s, i) == SubSeq(s, i, i)

LowerLetters == "abcdefghijklmnopqrstuvwxyz"

UpperLetters == "ABCDEFGHIJKLMNOPQRSTUVWXYZ"

DigitChars == "0123456789"

InString(c, s) == \E i \in 1..Len(s) : CharAt(s, i) = c

upperChar(c) ==
  IF InString(c, LowerLetters)
  THEN CharAt(UpperLetters, CHOOSE i \in 1..26 : CharAt(LowerLetters, i) = c)
  ELSE c

RECURSIVE toUpperCase(_)
toUpperCase(s) ==
  IF Len(s) = 0 THEN "" ELSE upperChar(CharAt(s, 1)) \o toUpperCase(SubSeq(s, 2, Len(s)))

\* s.indexOf(c), 0-based, -1 when absent
indexOf(s, c) ==
  IF InString(c, s) THEN (CHOOSE i \in 1..Len(s) :
                            CharAt(s, i) = c /\ \A j \in 1..(i - 1) : CharAt(s, j) # c) - 1
  ELSE -1

\* s.substring(a, b) for 0 <= a <= b <= s.length
substring(s, a, b) == SubSeq(s, a + 1, b)

RECURSIVE split(_, _)
\* s.split(c): the pieces of s between the occurrences of c
split(s, c) ==
  LET k == indexOf(s, c)
  IN IF k < 0 THEN <<Str(s)>>
     ELSE <<Str(substring(s, 0, k))>> \o split(substring(s, k + 1, Len(s)), c)

---------------------------------------------------------------------------
(* Type, ReservedWord, tokenTypes (lines 8-41) *)

EMPTY_SPACE == "empty_space"
SELECT_STATEMENT == "select_statement"
FROM_STATEMENT == "from_statement"
WHERE_STATEMENT == "where_statement"
ORDER_BY_STATEMENT == "order_by_statement"
LIMIT_STATEMENT == "limit_statement"
CONCAT_OPERATOR == "concat_operator"
COMMA_DELIMITER == "comma_delimiter"
STRING_LITERAL == "string_literal"
FUNCTION_CALL == "function_call"
UNKNOWN == "unknown"
ASTERISK == "asterisk"

Type ==
  {EMPTY_SPACE, SELECT_STATEMENT, FROM_STATEMENT, WHERE_STATEMENT, ORDER_BY_STATEMENT,
   LIMIT_STATEMENT, CONCAT_OPERATOR, COMMA_DELIMITER, STRING_LITERAL, FUNCTION_CALL,
   UNKNOWN, ASTERISK}

AS == "AS"

tokenTypes ==
  ("" :> EMPTY_SPACE) @@ ("," :> COMMA_DELIMITER) @@ ("SELECT" :> SELECT_STATEMENT) @@
  ("FROM" :> FROM_STATEMENT) @@ ("WHERE" :> WHERE_STATEMENT) @@
  ("ORDER BY" :> ORDER_BY_STATEMENT) @@ ("LIMIT" :> LIMIT_STATEMENT) @@
  ("||" :> CONCAT_OPERATOR) @@ ("*" :> ASTERISK)

---------------------------------------------------------------------------
(* lexicalAnalysis (lines 49-73) *)

\* token.startsWith("'") && token.endsWith("'")
isString(token) ==
  Len(token) >= 1 /\ CharAt(token, 1) = "'" /\ CharAt(token, Len(token)) = "'"

isWordChar(c) == InString(c, LowerLetters) \/ InString(c, UpperLetters)
                 \/ InString(c, DigitChars) \/ c = "_"

\* token.match(/^([a-zA-Z0-9_]+)\((.*)\)$/)
isFunctionCall(token) ==
  \E p \in 2..(Len(token) - 1) :
     /\ \A j \in 1..(p - 1) : isWordChar(CharAt(token, j))
     /\ CharAt(token, p) = "("
     /\ CharAt(token, Len(token)) = ")"

\* the lookup without its fallback: no type for a string that is no key
lookupTypeNoFallback(token) ==
  IF toUpperCase(token) \in DOMAIN tokenTypes THEN tokenTypes[toUpperCase(token)]
  ELSE "undefined"

\* tokenTypes[token.toUpperCase()] || Type.UNKNOWN
lookupType(token) ==
  IF toUpperCase(token) \in DOMAIN tokenTypes THEN tokenTypes[toUpperCase(token)] ELSE UNKNOWN

\* the callback of tokens.map
classify(token) ==
  IF isString(token)
  THEN [type |-> STRING_LITERAL, value |-> Str(SubSeq(token, 2, Len(token) - 1))]
  ELSE IF isFunctionCall(token)
  THEN [type |-> FUNCTION_CALL, value |-> Str(token)]
  ELSE [type |-> lookupType(token), value |-> Str(token)]

lexicalAnalysis(tokens) == [i \in 1..Len(tokens) |-> classify(tokens[i])]

removeEmptySpace(token) == token.type # EMPTY_SPACE

---------------------------------------------------------------------------
(* syntaticAnalysis (lines 81-225) *)

isConcatPart(part) == TypeOf(part) = CONCAT_OPERATOR

isNotConcatPart(part) == TypeOf(part) # CONCAT_OPERATOR

processColumnValueFromParts(columnParts) ==
  IF \E k \in 1..Len(columnParts) : isConcatPart(columnParts[k])
  THEN [type |-> "concatenation",
        elements |-> Arr(SelectSeq(columnParts, isNotConcatPart))]
  ELSE IF Len(columnParts) = 1
  THEN [type |-> columnParts[1].type, value |-> Get(columnParts[1], "value")]
  ELSE Undefined

\* the FUNCTION_CALL branch of walk (lines 104-117)
functionCallNode(value) ==
  [type |-> "function_call",
   name |-> Str(substring(value, 0, indexOf(value, "("))),
   arguments |-> Arr(split(substring(value, indexOf(value, "(") + 1, indexOf(value, ")")),
                           ","))]

isAsToken(token) == token.type = UNKNOWN /\ toUpperCase(token.value.string) = AS

column(columnValue, alias) ==
  [type |-> "column", columnValue |-> columnValue, alias |-> alias]

\* the alias is carried over to the next column
aliasKept(alias) == alias

\* alias = null, once a column is pushed at a comma (line 190)
aliasAfterComma(alias) == Null

RECURSIVE walk(_, _)
RECURSIVE columnScan(_, _, _, _, _)

\* the while loop of the SELECT branch (lines 183-202); its result is the loop's
\* variables at the exit, or the error thrown inside it
columnScan(tokens, i, columns, columnParts, alias) ==
  LET t == At(tokens, i)
  IN IF IsUndefined(t) THEN TypeError
     ELSE IF t.type = FROM_STATEMENT
     THEN [i |-> i, columns |-> columns, columnParts |-> columnParts, alias |-> alias]
     ELSE IF t.type = COMMA_DELIMITER
     THEN columnScan(tokens, i + 1,
                     Append(columns, column(processColumnValueFromParts(columnParts), alias)),
                     <<>>, aliasAfterComma(alias))
     ELSE IF isAsToken(t)
     THEN LET a == walk(tokens, i)
          IN IF IsThrown(a) THEN a
             ELSE columnScan(tokens, i + 1, columns, columnParts, a)
     ELSE LET element == walk(tokens, i)
          IN IF IsThrown(element) THEN element
             ELSE IF IsUndefined(element) THEN TypeError
             ELSE columnScan(tokens, i + 1, columns,
                             IF TypeOf(element) # "alias_value"
                             THEN Append(columnParts, element) ELSE columnParts,
                             alias)

\* the SELECT branch with a scan that takes the end of the input for the end of the
\* columns, and a FROM clause that may be missing
selectNodeLenient(tokens, index) ==
  LET scan == columnScan(Append(tokens, [type |-> FROM_STATEMENT, value |-> Str("")]),
                         index + 1, <<>>, <<>>, Null)
  IN IF IsThrown(scan) THEN scan
     ELSE LET columns == IF Len(scan.columnParts) > 0
                         THEN Append(scan.columns,
                                     column(processColumnValueFromParts(scan.columnParts),
                                            scan.alias))
                         ELSE scan.columns
              from == walk(tokens, scan.i + 1)
          IN [type |-> "select", columns |-> Arr(columns),
              from |-> IF IsThrown(from) THEN Undefined ELSE from]

\* the SELECT branch of walk (lines 175-217)
selectNode(tokens, index) ==
  LET scan == columnScan(tokens, index + 1, <<>>, <<>>, Null)
  IN IF IsThrown(scan) THEN scan
     ELSE LET columns == IF Len(scan.columnParts) > 0
                         THEN Append(scan.columns,
                                     column(processColumnValueFromParts(scan.columnParts),
                                            scan.alias))
                         ELSE scan.columns
              from == walk(tokens, scan.i + 1)
          IN IF IsThrown(from) THEN from
             ELSE [type |-> "select", columns |-> Arr(columns), from |-> from]

walk(tokens, index) ==
  LET token == At(tokens, index)
      lastToken == At(tokens, index - 1)
  IN IF IsUndefined(token) THEN TypeError
     ELSE IF token.type = FUNCTION_CALL THEN functionCallNode(token.value.string)
     ELSE IF token.type = CONCAT_OPERATOR THEN token
     ELSE IF token.type = STRING_LITERAL
     THEN [type |-> "string_literal", value |-> token.value]
     ELSE IF token.type = ASTERISK
     THEN [type |-> "asterisk", value |-> token.value]
     ELSE IF token.type = FROM_STATEMENT
     THEN LET object == walk(tokens, index + 1)
          IN IF IsThrown(object) THEN object ELSE [type |-> "from", object |-> object]
     ELSE IF token.type = UNKNOWN
     THEN IF IsUndefined(lastToken) THEN TypeError
          ELSE IF isAsToken(lastToken)
          THEN [type |-> "alias_value", value |-> token.value]
          ELSE IF toUpperCase(token.value.string) = AS
          THEN LET v == walk(tokens, index + 1)
               IN IF IsThrown(v) THEN v ELSE [type |-> "column_alias", value |-> v]
          ELSE IF lastToken.type = FROM_STATEMENT
          THEN [type |-> "from_object", value |-> token.value]
          ELSE [type |-> "object_value", value |-> token.value]
     ELSE IF token.type = SELECT_STATEMENT THEN selectNode(tokens, index)
     ELSE IF index < Len(tokens) - 1 THEN walk(tokens, index + 1)
     ELSE Undefined

syntaticAnalysis(tokens) == walk(SelectSeq(tokens, removeEmptySpace), 0)

\* the default export of line 3
parse(tokens) == syntaticAnalysis(lexicalAnalysis(tokens))

---------------------------------------------------------------------------
(* The constants the SELECT builder imports (lines 227-232).  Their files   *)
(* are not part of the source; each is the type tag of the tokens the spec *)
(* names (section 3, TokenType) or of a node the builder makes.            *)

CommandSELECT == "SELECT"
CommandAS == "AS"
ReservedWordAS == "AS"
ReservedWordFROM == "FROM"
ReservedWordWHERE == "WHERE"
ReservedWordUNION == "UNION"
ReservedWordALL == "ALL"
ReservedWordORDER_BY == "ORDER_BY"
ReservedWordLIMIT == "LIMIT"
OtherUNION_ALL == "UNION_ALL"
OtherCONCATENATION == "CONCATENATION"
OtherIDENTIFIER == "IDENTIFIER"
OtherFUNCTION_CALL == "FUNCTION_CALL"
OtherPARENTHESIS == "PARENTHESIS"
OtherAS_ALIAS == "AS_ALIAS"
OtherSHORT_ALIAS == "SHORT_ALIAS"
OtherNUMBER == "NUMBER"
OtherQUOTE == "QUOTE"
OperatorCONCAT == "CONCAT"
OperatorAND == "AND"
OperatorOR == "OR"
DelimiterCOMMA == "COMMA"
DelimiterLEFT_PARENTHESIS == "LEFT_PARENTHESIS"
DelimiterRIGHT_PARENTHESIS == "RIGHT_PARENTHESIS"
DelimiterASTERISK == "ASTERISK"
ComparatorEQUAL == "EQUAL"
ComparatorLESS == "LESS"
ComparatorGREATER == "GREATER"

\* Operator.isLogical(type)
OperatorIsLogical(type) == type \in {OperatorAND, OperatorOR}

\* Comparator.is(type)
ComparatorIs(type) == type \in {ComparatorEQUAL, ComparatorLESS, ComparatorGREATER}

\* ReservedWord.isEndOfWhere(token): the end of the input, the next set operation,
\* the next clause keyword
ReservedWordIsEndOfWhere(token) ==
  IsUndefined(token)
  \/ TypeOf(token) \in {ReservedWordUNION, ReservedWordORDER_BY, ReservedWordLIMIT}

\* isQuote(token) of ./identifier.mjs
isQuote(token) == TypeOf(token) = OtherQUOTE

\* the value of an index that was read from a property an object does not have
\* (undefined, and NaN after arithmetic): tokens[NaN] is undefined
NaN == -1

Plus(index, k) == IF index = NaN THEN NaN ELSE index + k

---------------------------------------------------------------------------
(* isUnion, getUnionType, getIndexNextSelect, isWhere (lines 241-286) *)

isUnion(tokens, index) == ReservedWordUNION = TypeOf(At(tokens, index))

getUnionType(tokens, index) ==
  LET next == At(tokens, Plus(index, 1))
  IN IF isUnion(tokens, index) /\ ReservedWordALL = TypeOf(next) THEN Str(OtherUNION_ALL)
     ELSE IF isUnion(tokens, index) THEN Str(ReservedWordUNION)
     ELSE Thrown("Error")

getIndexNextSelect(tokens, index) ==
  LET unionType == getUnionType(tokens, index)
  IN IF IsThrown(unionType) THEN unionType
     ELSE IF unionType.string = ReservedWordUNION THEN [index |-> index + 1]
     ELSE [index |-> index + 2]

isWhere(tokens, index) == TypeOf(At(tokens, index)) = ReservedWordWHERE

---------------------------------------------------------------------------
(* splitTokensByConcatOperator, processColumn (lines 328-409) *)

RECURSIVE splitLoop(_, _, _)
\* the while loop of splitTokensByConcatOperator, from its variables arr, index, arrays
splitLoop(arr, index, arrays) ==
  IF index < Len(arr)
  THEN IF TypeOf(arr[index + 1]) = OperatorCONCAT
       THEN splitLoop(SubSeq(arr, index + 2, Len(arr)), 0,
                      Append(arrays, SubSeq(arr, 1, index)))
       ELSE splitLoop(arr, index + 1, arrays)
  ELSE Append(arrays, arr)

splitTokensByConcatOperator(arr) == splitLoop(arr, 0, <<>>)

hasConcat(parts) == \E k \in 1..Len(parts) : TypeOf(parts[k]) = OperatorCONCAT

RECURSIVE processColumn(_, _)
processColumn(parts, alias) ==
  IF hasConcat(parts)
  THEN LET subParts == splitTokensByConcatOperator(parts)
           subColumns == [k \in 1..Len(subParts) |-> processColumn(subParts[k], Undefined)]
       IN IF \E k \in 1..Len(subColumns) : IsThrown(subColumns[k])
          THEN subColumns[CHOOSE k \in 1..Len(subColumns) :
                             /\ IsThrown(subColumns[k])
                             /\ \A j \in 1..(k - 1) : ~IsThrown(subColumns[j])]
          ELSE [type |-> OtherCONCATENATION, value |-> Arr(subColumns), alias |-> alias]
  ELSE IF /\ Len(parts) >= 3
          /\ TypeOf(parts[1]) = OtherIDENTIFIER
          /\ TypeOf(parts[2]) = DelimiterLEFT_PARENTHESIS
  THEN \* parts.indexOf(<a string>) is -1 among objects: slice(2, -1)
       [type |-> OtherFUNCTION_CALL,
        value |-> [name |-> Get(parts[1], "value"),
                   arguments |-> Arr(SubSeq(parts, 3, Len(parts) - 1))],
        alias |-> alias]
  ELSE IF Len(parts) >= 1 /\ TypeOf(parts[1]) = DelimiterLEFT_PARENTHESIS
  THEN \* parts.indexOf(<a fresh object>) is -1: slice(1, -1), then its first element
       [type |-> OtherPARENTHESIS,
        value |-> IF Len(parts) >= 3 THEN parts[2] ELSE Undefined,
        alias |-> alias]
  ELSE IF Len(parts) = 1
  THEN [type |-> TypeOf(parts[1]), value |-> Get(parts[1], "value"), alias |-> alias]
  ELSE Thrown("Error")

---------------------------------------------------------------------------
(* getObjectAlias (lines 416-433) *)

getObjectAlias(tokens, index) ==
  IF TypeOf(At(tokens, index)) = CommandAS
  THEN [type |-> OtherAS_ALIAS, value |-> At(tokens, index + 1)]
  ELSE IF /\ TypeOf(At(tokens, index)) = OtherIDENTIFIER
          /\ TypeOf(At(tokens, index - 2)) = ReservedWordFROM
  THEN [type |-> OtherSHORT_ALIAS, value |-> At(tokens, index).value]
  ELSE Undefined

---------------------------------------------------------------------------
(* The SELECT builder (lines 435-553) and walkWhereParts (lines 288-319).  *)
(* Each walker takes the builder's cursor `index` and gives back what it   *)
(* returns together with the cursor it leaves.                             *)

RECURSIVE parserWalk(_, _)
RECURSIVE select(_, _)
RECURSIVE columnsLoop(_, _, _, _)
RECURSIVE walkWhereParts(_, _)
RECURSIVE whereLoop(_, _, _)

\* walk of ../parser.mjs: dispatch on the type of tokens[index].  A SELECT goes to
\* the builder; any other token is returned as it is, consumed alone; reading the
\* type of a token past the end throws.
parserWalk(tokens, index) ==
  LET token == At(tokens, index)
  IN IF IsUndefined(token) THEN TypeError
     ELSE IF token.type = CommandSELECT THEN select(tokens, index)
     ELSE [value |-> token, index |-> index]

\* buildColumn (lines 460-470): the column, or the error thrown
buildColumn(columnTmp) ==
  IF IsUndefined(columnTmp) THEN TypeError
  ELSE processColumn(columnTmp.columns, columnTmp.alias)

\* addColumn (lines 445-454): the new columnTmp
addColumn(columnTmp, col) ==
  IF IsUndefined(columnTmp) THEN [columns |-> <<col>>, alias |-> Undefined]
  ELSE [columnTmp EXCEPT !.columns = Append(@, col)]

\* the while loop of walkColumns and the buildColumn after it (lines 472-486)
columnsLoop(tokens, index, columns, columnTmp) ==
  LET t == At(tokens, index)
  IN IF TypeOf(t) = ReservedWordFROM
     THEN LET c == buildColumn(columnTmp)
          IN IF IsThrown(c) THEN c
             ELSE [columns |-> Append(columns, c), index |-> index]
     ELSE IF TypeOf(t) = DelimiterCOMMA
     THEN LET c == buildColumn(columnTmp)
          IN IF IsThrown(c) THEN c
             ELSE columnsLoop(tokens, Plus(index, 1), Append(columns, c), Undefined)
     ELSE IF TypeOf(t) = ReservedWordAS
     THEN LET w == parserWalk(tokens, Plus(index, 1))
          IN IF IsThrown(w) THEN w
             ELSE IF IsUndefined(Get(w, "value")) \/ IsUndefined(columnTmp) THEN TypeError
             ELSE columnsLoop(tokens, Plus(index, 2), columns,
                              [columnTmp EXCEPT !.alias = Get(w.value, "value")])
     ELSE IF ~isQuote(t)
     THEN LET w == parserWalk(tokens, index)
          IN IF IsThrown(w) THEN w
             ELSE columnsLoop(tokens,
                              Plus(IF "index" \in DOMAIN w THEN w.index ELSE NaN, 1),
                              columns, addColumn(columnTmp, Get(w, "value")))
     ELSE columnsLoop(tokens, Plus(index, 1), columns, columnTmp)

walkColumns(tokens, index) == columnsLoop(tokens, index + 1, <<>>, Undefined)

walkFrom(tokens, index) ==
  LET w == parserWalk(tokens, Plus(index, 1))
      from == Get(w, "value")
      aliased == getObjectAlias(tokens, Plus(index, 2))
      aliasType == TypeOf(aliased)
  IN IF IsThrown(w) THEN w
     ELSE IF IsUndefined(from) THEN TypeError
     ELSE [node |-> [type |-> OtherIDENTIFIER,
                     value |-> Get(from, "value"),
                     alias |-> Get(aliased, "value")],
           index |-> IF aliasType = OtherAS_ALIAS THEN Plus(index, 4)
                     ELSE IF aliasType = OtherSHORT_ALIAS THEN Plus(index, 3)
                     ELSE Plus(index, 2)]

\* the while loop of walkWhereParts, from its variables index and comparation
whereLoop(tokens, index, comparation) ==
  IF ReservedWordIsEndOfWhere(At(tokens, index))
  THEN [value |-> comparation, index |-> index]
  ELSE IF OperatorIsLogical(TypeOf(At(tokens, index)))
  THEN LET r == walkWhereParts(tokens, index + 1)
       IN IF IsThrown(r) THEN r
          ELSE [type |-> At(tokens, index).type,
                left |-> comparation,
                right |-> Get(r, "value")]
  ELSE IF ComparatorIs(TypeOf(At(tokens, index + 1)))
  THEN LET rightIndex == IF isQuote(At(tokens, index + 2)) THEN 3 ELSE 2
           w == parserWalk(tokens, index + rightIndex)
       IN IF IsThrown(w) THEN w
          ELSE whereLoop(tokens, index + (IF rightIndex = 3 THEN 4 ELSE 3),
                         [type |-> At(tokens, index + 1).type,
                          left |-> At(tokens, index),
                          right |-> Get(w, "value")])
  ELSE whereLoop(tokens, index + 1, comparation)

walkWhereParts(tokens, index) == whereLoop(tokens, index, Undefined)

walkWhere(tokens, index) ==
  LET r == walkWhereParts(tokens, Plus(index, 1))
  IN IF IsThrown(r) THEN r
     ELSE [node |-> [type |-> ReservedWordWHERE, value |-> Get(r, "value")],
           index |-> IF "index" \in DOMAIN r THEN r.index ELSE NaN]

\* the union wrapping of the builder (lines 537-550)
unionNode(tokens, index, currentSelect) ==
  LET next == getIndexNextSelect(tokens, index)
      w == parserWalk(tokens, next.index)
      kind == getUnionType(tokens, index)
  IN IF IsThrown(next) THEN next
     ELSE IF IsThrown(w) THEN w
     ELSE [type |-> kind.string,
           value |-> [left |-> currentSelect.value, right |-> Get(w, "value")]]

\* the default export of the builder (lines 435-553)
select(tokens, index) ==
  LET c == walkColumns(tokens, index)
      f == walkFrom(tokens, c.index)
      w == IF isWhere(tokens, f.index) THEN walkWhere(tokens, f.index)
           ELSE [node |-> Undefined, index |-> f.index]
      currentSelect ==
        [value |-> [type |-> CommandSELECT,
                    value |-> [columns |-> Arr(c.columns),
                               from |-> f.node,
                               where |-> w.node]],
         index |-> Plus(w.index, -1)]
  IN IF IsThrown(c) THEN c
     ELSE IF IsThrown(f) THEN f
     ELSE IF IsThrown(w) THEN w
     ELSE IF isUnion(tokens, w.index) THEN unionNode(tokens, w.index, currentSelect)
     ELSE currentSelect

---------------------------------------------------------------------------
(* Inputs.  A classified token of the builder carries its raw text as its  *)
(* value; the pipeline of line 3 is given that raw text.                   *)

Token(type, value) == [type |-> type, value |-> Str(value)]

SelectToken == Token(CommandSELECT, "SELECT")
FromToken == Token(ReservedWordFROM, "FROM")
WhereToken == Token(ReservedWordWHERE, "WHERE")
UnionToken == Token(ReservedWordUNION, "UNION")
AllToken == Token(ReservedWordALL, "ALL")
AsToken == Token(ReservedWordAS, "AS")
CommaToken == Token(DelimiterCOMMA, ",")
ConcatToken == Token(OperatorCONCAT, "||")
AsteriskToken == Token(DelimiterASTERISK, "*")
QuoteToken == Token(OtherQUOTE, "'")
Identifier(name) == Token(OtherIDENTIFIER, name)

RawOf(tokens) == [i \in 1..Len(tokens) |-> tokens[i].value.string]

MaxTokens == 5

MaxRaw == 3

MaxColumnTokens == 5

MaxSelects == 3

MaxComparisons == 3

ParseVocabulary == {"SELECT", "FROM", "a", "AS", ",", "||", ""}

LexVocabulary ==
  {"", "select", "SELECT", "From", "order by", ",", "||", "*", "'a'", "'", "f(x)", "f(",
   "x", "UNION"}

ColumnVocabulary == {Identifier("a"), Identifier("b"), AsToken, CommaToken, ConcatToken}

---------------------------------------------------------------------------
(* Spec: parse (line 3) applied to every sequence of at most MaxTokens raw *)
(* strings of ParseVocabulary.                                              *)

Init == input = <<>> /\ pc = "input" /\ out = Undefined

AddToken(t) ==
  /\ pc = "input"
  /\ Len(input) < MaxTokens
  /\ input' = Append(input, t)
  /\ UNCHANGED <<pc, out>>

Parse ==
  /\ pc = "input"
  /\ pc' = "done"
  /\ out' = parse(input)
  /\ UNCHANGED input

Next == (\E t \in ParseVocabulary : AddToken(t)) \/ Parse

Spec == Init /\ [][Next]_vars

---------------------------------------------------------------------------
(* SpecLex: lexicalAnalysis applied to every sequence of at most MaxRaw    *)
(* raw strings of LexVocabulary.                                            *)

AddRaw(t) ==
  /\ pc = "input"
  /\ Len(input) < MaxRaw
  /\ input' = Append(input, t)
  /\ UNCHANGED <<pc, out>>

Lex ==
  /\ pc = "input"
  /\ pc' = "done"
  /\ out' = Arr(lexicalAnalysis(input))
  /\ UNCHANGED input

NextLex == (\E t \in LexVocabulary : AddRaw(t)) \/ Lex

SpecLex == Init /\ [][NextLex]_vars

---------------------------------------------------------------------------
(* SpecColumns: SELECT <at most MaxColumnTokens tokens> FROM t, given to   *)
(* the builder as tokens and to the pipeline as raw text.                  *)

InitColumns == input = <<SelectToken>> /\ pc = "columns" /\ out = Undefined

AddColumnToken(t) ==
  /\ pc = "columns"
  /\ Len(input) < 1 + MaxColumnTokens
  /\ input' = Append(input, t)
  /\ UNCHANGED <<pc, out>>

ParseColumns ==
  /\ pc = "columns"
  /\ pc' = "done"
  /\ input' = input \o <<FromToken, Identifier("t")>>
  /\ out' = [old |-> parse(RawOf(input')), new |-> select(input', 0)]

NextColumns == (\E t \in ColumnVocabulary : AddColumnToken(t)) \/ ParseColumns

SpecColumns == InitColumns /\ [][NextColumns]_vars

---------------------------------------------------------------------------
(* SpecUnion: at most MaxSelects statements SELECT c FROM s joined by      *)
(* UNION or UNION ALL, given to the builder.                                *)

NumSelects(tokens) == Len(SelectSeq(tokens, LAMBDA t : t.type = CommandSELECT))

InitUnion == input = <<>> /\ pc = "select" /\ out = Undefined

AddSelect(col, src) ==
  /\ pc = "select"
  /\ input' = input \o <<SelectToken, col, FromToken, Identifier(src)>>
  /\ pc' = "joined"
  /\ UNCHANGED out

AddUnion(all) ==
  /\ pc = "joined"
  /\ NumSelects(input) < MaxSelects
  /\ input' = input \o (IF all THEN <<UnionToken, AllToken>> ELSE <<UnionToken>>)
  /\ pc' = "select"
  /\ UNCHANGED out

Build ==
  /\ pc = "joined"
  /\ pc' = "done"
  /\ out' = select(input, 0)
  /\ UNCHANGED input

NextUnion ==
  \/ \E col \in {AsteriskToken, Identifier("c")}, src \in {"a", "b"} : AddSelect(col, src)
  \/ \E all \in BOOLEAN : AddUnion(all)
  \/ Build

SpecUnion == InitUnion /\ [][NextUnion]_vars

---------------------------------------------------------------------------
(* SpecWhere: SELECT * FROM t WHERE <at most MaxComparisons comparisons    *)
(* joined by AND/OR>, alone or followed by UNION [ALL] SELECT * FROM u.    *)

Comparisons ==
  {<<Identifier("x"), Token(ComparatorEQUAL, "="), Token(OtherNUMBER, "1")>>,
   <<Identifier("y"), Token(ComparatorLESS, "<"), Token(OtherNUMBER, "2")>>,
   <<Identifier("x"), Token(ComparatorEQUAL, "="), QuoteToken, Identifier("s"), QuoteToken>>}

NumComparisons(tokens) == Len(SelectSeq(tokens, LAMBDA t : ComparatorIs(t.type)))

InitWhere ==
  /\ input = <<SelectToken, AsteriskToken, FromToken, Identifier("t"), WhereToken>>
  /\ pc = "comparison"
  /\ out = Undefined

AddComparison(c) ==
  /\ pc = "comparison"
  /\ input' = input \o c
  /\ pc' = "predicate"
  /\ UNCHANGED out

AddLogical(op) ==
  /\ pc = "predicate"
  /\ NumComparisons(input) < MaxComparisons
  /\ input' = Append(input, Token(op, op))
  /\ pc' = "comparison"
  /\ UNCHANGED out

AddUnionSelect(all) ==
  /\ pc = "predicate"
  /\ input' = input \o (IF all THEN <<UnionToken, AllToken>> ELSE <<UnionToken>>)
                    \o <<SelectToken, AsteriskToken, FromToken, Identifier("u")>>
  /\ pc' = "closed"
  /\ UNCHANGED out

BuildWhere ==
  /\ pc \in {"predicate", "closed"}
  /\ pc' = "done"
  /\ out' = select(input, 0)
  /\ UNCHANGED input

NextWhere ==
  \/ \E c \in Comparisons : AddComparison(c)
  \/ \E op \in {OperatorAND, OperatorOR} : AddLogical(op)
  \/ \E all \in BOOLEAN : AddUnionSelect(all)
  \/ BuildWhere

SpecWhere == InitWhere /\ [][NextWhere]_vars

---------------------------------------------------------------------------
(* SpecFrom: SELECT c FROM s, with no alias, AS x or a bare x, alone or    *)
(* followed by a WHERE or a UNION; walkFrom is applied at the FROM token.  *)

Names == {"x", "y", "z"}

Tails ==
  {<<WhereToken, Identifier("k"), Token(ComparatorEQUAL, "="), Token(OtherNUMBER, "1")>>,
   <<UnionToken, SelectToken, AsteriskToken, FromToken, Identifier("u")>>,
   <<UnionToken, AllToken, SelectToken, AsteriskToken, FromToken, Identifier("u")>>}

InitFrom ==
  /\ input \in {<<SelectToken, AsteriskToken>>, <<SelectToken, Identifier("c")>>}
  /\ pc = "from"
  /\ out = Undefined

AddSource(src) ==
  /\ pc = "from"
  /\ input' = input \o <<FromToken, Identifier(src)>>
  /\ pc' = "alias"
  /\ UNCHANGED out

AddAsAlias(name) ==
  /\ pc = "alias"
  /\ input' = input \o <<AsToken, Identifier(name)>>
  /\ pc' = "tail"
  /\ UNCHANGED out

AddShortAlias(name) ==
  /\ pc = "alias"
  /\ input' = Append(input, Identifier(name))
  /\ pc' = "tail"
  /\ UNCHANGED out

AddTail(tail) ==
  /\ pc \in {"alias", "tail"}
  /\ input' = input \o tail
  /\ pc' = "closed"
  /\ UNCHANGED out

BuildFrom ==
  /\ pc \in {"alias", "tail", "closed"}
  /\ pc' = "done"
  /\ out' = [from |-> walkFrom(input, 2), result |-> select(input, 0)]
  /\ UNCHANGED input

NextFrom ==
  \/ \E src \in {"t", "u", "v"} : AddSource(src)
  \/ \E name \in Names : AddAsAlias(name)
  \/ \E name \in Names : AddShortAlias(name)
  \/ \E tail \in Tails : AddTail(tail)
  \/ BuildFrom

SpecFrom == InitFrom /\ [][NextFrom]_vars

---------------------------------------------------------------------------
(* Reading an input back, independently of the parser *)

RECURSIVE SplitAt(_, _)
\* the maximal runs of s between its tokens of the given type
SplitAt(s, type) ==
  IF \E k \in 1..Len(s) : s[k].type = type
  THEN LET k == CHOOSE k \in 1..Len(s) :
                   s[k].type = type /\ \A j \in 1..(k - 1) : s[j].type # type
       IN <<SubSeq(s, 1, k - 1)>> \o SplitAt(SubSeq(s, k + 1, Len(s)), type)
  ELSE <<s>>

CountType(s, type) == Len(SelectSeq(s, LAMBDA t : t.type = type))

\* the tokens between SELECT and FROM t of an input of SpecColumns
ColumnTokens == SubSeq(input, 2, Len(input) - 2)

Segments == SplitAt(ColumnTokens, DelimiterCOMMA)

\* an expression: identifiers with one concat operator between neighbours
IsExpr(seg) ==
  /\ Len(seg) % 2 = 1
  /\ \A k \in 1..Len(seg) :
       seg[k].type = (IF k % 2 = 1 THEN OtherIDENTIFIER ELSE OperatorCONCAT)

\* <expr> AS <name>
IsAliased(seg) ==
  /\ Len(seg) >= 3
  /\ seg[Len(seg) - 1].type = ReservedWordAS
  /\ seg[Len(seg)].type = OtherIDENTIFIER
  /\ IsExpr(SubSeq(seg, 1, Len(seg) - 2))

ExprOf(seg) == IF IsAliased(seg) THEN SubSeq(seg, 1, Len(seg) - 2) ELSE seg

\* the names of an expression, in order
NamesOf(expr) == [k \in 1..((Len(expr) + 1) \div 2) |-> expr[2 * k - 1].value]

\* the names a column of the builder is made of
BuilderNames(col) ==
  IF col.type = OtherCONCATENATION
  THEN [k \in 1..Len(col.value.array) |-> Get(col.value.array[k], "value")]
  ELSE <<col.value>>

\* the names a column of the pipeline is made of
PipelineNames(col) ==
  IF IsUndefined(col.columnValue) THEN <<>>
  ELSE IF col.columnValue.type = "concatenation"
  THEN [k \in 1..Len(col.columnValue.elements.array) |->
          Get(col.columnValue.elements.array[k], "value")]
  ELSE <<col.columnValue.value>>

BuilderColumns == out.new.value.value.columns.array

PipelineColumns == out.old.columns.array

---------------------------------------------------------------------------
(* C9 *)

ExpectedType ==
  ("" :> EMPTY_SPACE) @@ ("select" :> SELECT_STATEMENT) @@ ("SELECT" :> SELECT_STATEMENT) @@
  ("From" :> FROM_STATEMENT) @@ ("order by" :> ORDER_BY_STATEMENT) @@
  ("," :> COMMA_DELIMITER) @@ ("||" :> CONCAT_OPERATOR) @@ ("*" :> ASTERISK) @@
  ("'a'" :> STRING_LITERAL) @@ ("'" :> STRING_LITERAL) @@ ("f(x)" :> FUNCTION_CALL) @@
  ("f(" :> UNKNOWN) @@ ("x" :> UNKNOWN) @@ ("UNION" :> UNKNOWN)

ExpectedValue(raw) == IF raw = "'a'" THEN "a" ELSE IF raw = "'" THEN "" ELSE raw

\* C9: the classifier returns as many tokens as it was given strings, the i-th made
\* from the i-th string alone (its type by the rules, its value the string, without
\* the quotes of a literal); an empty string stays, as an empty_space token; a
\* string matching no rule becomes an unknown token; the result is never an error.
ClassifierOneToOne ==
  pc = "done" =>
    /\ IsArr(out)
    /\ Len(out.array) = Len(input)
    /\ \A i \in 1..Len(input) :
         out.array[i] = [type |-> ExpectedType[input[i]],
                         value |-> Str(ExpectedValue(input[i]))]

ClassifierWitness ==
  /\ pc = "done"
  /\ input = <<"", "f(", "'a'">>
  /\ out = Arr(<<[type |-> EMPTY_SPACE, value |-> Str("")],
                 [type |-> UNKNOWN, value |-> Str("f(")],
                 [type |-> STRING_LITERAL, value |-> Str("a")]>>)

---------------------------------------------------------------------------
(* C7, C8 *)

NonEmpty(raw) == SelectSeq(raw, LAMBDA r : r # "")

StartsWithSelect(raw) == Len(NonEmpty(raw)) >= 1 /\ NonEmpty(raw)[1] = "SELECT"

HasNoFrom(raw) == \A i \in 1..Len(raw) : raw[i] # "FROM"

\* C7: a token sequence that starts with SELECT and holds no FROM makes parse end
\* with an error: no node is returned, and the scan of the columns stops (it throws
\* when it reads the token past the end).
SelectWithoutFromFails ==
  (pc = "done" /\ StartsWithSelect(input) /\ HasNoFrom(input)) => IsThrown(out)

SelectWithoutFromWitness ==
  /\ pc = "done"
  /\ input = <<"SELECT", "a", ",", "a">>
  /\ out = TypeError

\* C8: a select node that parse returns has at least one column, each column has an
\* expression, and it has a FROM clause.
EverySelectComplete ==
  (pc = "done" /\ TypeOf(out) = "select") =>
    /\ Len(out.columns.array) >= 1
    /\ \A k \in 1..Len(out.columns.array) : ~IsUndefined(out.columns.array[k].columnValue)
    /\ ~IsUndefined(out.from)

---------------------------------------------------------------------------
(* C3, C5, C6 *)

PipelineAlias(name) ==
  [type |-> "column_alias", value |-> [type |-> "alias_value", value |-> name]]

\* the columns written before the k-th are <expr> or <expr> AS <name>, so that the
\* k-th column written is the k-th column of the result
WrittenBefore(k) == \A j \in 1..(k - 1) : IsExpr(Segments[j]) \/ IsAliased(Segments[j])

\* C3: the column written <expr> AS <name> gets the alias <name> (the builder stores
\* the name, the pipeline a column_alias node around it) and is made of the names of
\* <expr> alone, without AS and without <name>; a column written <expr>, the one
\* after a comma too, has no alias.
AliasFollowsAs ==
  pc = "done" =>
    \A k \in 1..Len(Segments) :
      LET seg == Segments[k]
      IN WrittenBefore(k) =>
         /\ (IsAliased(seg) /\ ~IsThrown(out.new)) =>
              /\ BuilderColumns[k].alias = seg[Len(seg)].value
              /\ BuilderNames(BuilderColumns[k]) = NamesOf(ExprOf(seg))
         /\ (IsAliased(seg) /\ ~IsThrown(out.old)) =>
              /\ PipelineColumns[k].alias = PipelineAlias(seg[Len(seg)].value)
              /\ PipelineNames(PipelineColumns[k]) = NamesOf(ExprOf(seg))
         /\ (IsExpr(seg) /\ ~IsThrown(out.new)) =>
              /\ IsUndefined(BuilderColumns[k].alias)
              /\ BuilderNames(BuilderColumns[k]) = NamesOf(seg)
         /\ (IsExpr(seg) /\ ~IsThrown(out.old)) =>
              /\ IsNull(PipelineColumns[k].alias)
              /\ PipelineNames(PipelineColumns[k]) = NamesOf(seg)

AliasFollowsAsWitness ==
  /\ pc = "done"
  /\ ColumnTokens = <<Identifier("a"), AsToken, Identifier("b"), CommaToken, Identifier("a")>>
  /\ ~IsThrown(out.new)
  /\ BuilderColumns = <<[type |-> OtherIDENTIFIER, value |-> Str("a"), alias |-> Str("b")],
                        [type |-> OtherIDENTIFIER, value |-> Str("a"), alias |-> Undefined]>>
  /\ ~IsThrown(out.old)
  /\ PipelineColumns[1].alias = PipelineAlias(Str("b"))
  /\ IsNull(PipelineColumns[2].alias)

RECURSIVE Rejoin(_)
\* the groups, with one concat operator between neighbours
Rejoin(groups) ==
  IF Len(groups) = 1 THEN groups[1]
  ELSE groups[1] \o <<ConcatToken>> \o Rejoin(Tail(groups))

\* C5: parts holding k >= 1 concat operators split into k+1 groups, in order, none
\* holding an operator, which joined again give the parts; and a concatenation node
\* that parse produces has k+1 parts, so at least two.
ConcatenationHasAllGroups ==
  pc = "done" =>
    \A n \in 1..Len(Segments) :
      LET seg == Segments[n]
          k == CountType(seg, OperatorCONCAT)
          groups == splitTokensByConcatOperator(seg)
      IN k >= 1 =>
           /\ Len(groups) = k + 1
           /\ \A g \in 1..Len(groups) : CountType(groups[g], OperatorCONCAT) = 0
           /\ Rejoin(groups) = seg
           /\ (~IsThrown(out.new) /\ BuilderColumns[n].type = OtherCONCATENATION) =>
                Len(BuilderColumns[n].value.array) = k + 1
           /\ (/\ ~IsThrown(out.old)
               /\ n <= Len(PipelineColumns)
               /\ TypeOf(PipelineColumns[n].columnValue) = "concatenation") =>
                Len(PipelineColumns[n].columnValue.elements.array) = k + 1

\* C6: the select list `x y`, two identifiers with neither AS nor a comma between
\* them, is accepted: a column comes back whose expression is x and whose alias is
\* y.  (Stated of the builder and of the pipeline: one of them accepting is enough.)
ShortColumnAliasAccepted ==
  (pc = "done" /\ Len(ColumnTokens) = 2
   /\ ColumnTokens[1].type = OtherIDENTIFIER /\ ColumnTokens[2].type = OtherIDENTIFIER) =>
    \/ /\ ~IsThrown(out.new)
       /\ BuilderColumns =
            <<[type |-> OtherIDENTIFIER, value |-> ColumnTokens[1].value,
               alias |-> ColumnTokens[2].value]>>
    \/ /\ ~IsThrown(out.old)
       /\ Len(PipelineColumns) = 1
       /\ PipelineNames(PipelineColumns[1]) = <<ColumnTokens[1].value>>
       /\ ~IsNull(PipelineColumns[1].alias)

---------------------------------------------------------------------------
(* C1 *)

\* the select node the builder makes of SELECT col FROM src [WHERE ...]
ExpectedSelect(col, src, where) ==
  [type |-> CommandSELECT,
   value |-> [columns |-> Arr(<<[type |-> col.type, value |-> col.value,
                                 alias |-> Undefined]>>),
              from |-> [type |-> OtherIDENTIFIER, value |-> src.value, alias |-> Undefined],
              where |-> where]]

\* the statements of an input of SpecUnion: the runs between its UNION tokens
Statements == SplitAt(input, ReservedWordUNION)

KindOf(statement) ==
  IF statement[1].type = ReservedWordALL THEN OtherUNION_ALL ELSE ReservedWordUNION

\* the select node of a statement [ALL] SELECT col FROM src
SelectOf(statement) ==
  ExpectedSelect(statement[Len(statement) - 2], statement[Len(statement)], Undefined)

RECURSIVE IsChain(_, _, _)
\* node is the right-nested chain of the statements, every node of the given kind
IsChain(node, statements, kind) ==
  IF Len(statements) = 1 THEN node = SelectOf(statements[1])
  ELSE /\ TypeOf(node) = kind
       /\ "value" \in DOMAIN node
       /\ {"left", "right"} \subseteq DOMAIN node.value
       /\ node.value.left = SelectOf(statements[1])
       /\ IsChain(node.value.right, Tail(statements), kind)

\* C1: N >= 2 statements all joined by UNION ALL (or all by UNION) come back as a
\* right-nested chain of N-1 set operations, each of that kind, nested ones too;
\* the left of the i-th is the i-th select, the right of the innermost the N-th.
UnionChainKeepsKind ==
  (/\ pc = "done"
   /\ Len(Statements) >= 2
   /\ \A i \in 2..Len(Statements) : KindOf(Statements[i]) = KindOf(Statements[2])) =>
    IsChain(out, Statements, KindOf(Statements[2]))

---------------------------------------------------------------------------
(* C2, C10 *)

IsLogicalToken(t) == t.type \in {OperatorAND, OperatorOR}

\* the tokens of the predicate of an input of SpecWhere
PredicateTokens == SubSeq(SplitAt(input, ReservedWordUNION)[1], 6,
                          Len(SplitAt(input, ReservedWordUNION)[1]))

\* the comparison written left op right, or left op ' right '
ComparisonOf(c) ==
  [type |-> c[2].type, left |-> c[1], right |-> IF Len(c) = 5 THEN c[4] ELSE c[3]]

RECURSIVE PredicateOf(_)
\* the tree of comparisons joined by AND/OR: the first comparison on the left of the
\* first operator, the tree of the rest on its right
PredicateOf(tokens) ==
  IF \E k \in 1..Len(tokens) : IsLogicalToken(tokens[k])
  THEN LET k == CHOOSE k \in 1..Len(tokens) :
                   IsLogicalToken(tokens[k]) /\ \A j \in 1..(k - 1) : ~IsLogicalToken(tokens[j])
       IN [type |-> tokens[k].type,
           left |-> ComparisonOf(SubSeq(tokens, 1, k - 1)),
           right |-> PredicateOf(SubSeq(tokens, k + 1, Len(tokens)))]
  ELSE ComparisonOf(tokens)

\* the select of the WHERE clause in the result: the result itself, or the left of
\* the set operation
WhereSelect == IF "type" \in DOMAIN out THEN out.value.left ELSE out.value

HasUnion == CountType(input, ReservedWordUNION) > 0

\* C2: of n >= 2 comparisons joined by AND/OR the select stores a Logical node with
\* the first operator, the first comparison on its left and the tree of the rest on
\* its right; the node and its sides are there.
WhereStoresLogical ==
  (pc = "done" /\ NumComparisons(input) >= 2) =>
    WhereSelect.value.where = [type |-> ReservedWordWHERE, value |-> PredicateOf(PredicateTokens)]

\* C10: after a WHERE clause followed by UNION [ALL] and a SELECT the cursor is on
\* the UNION token and the result is the set operation: on its left the select with
\* its predicate, on its right the select that follows.
WhereThenUnion ==
  (pc = "done" /\ HasUnion) =>
    /\ walkWhere(input, 4).index = 5 + Len(PredicateTokens)
    /\ TypeOf(out) = KindOf(SplitAt(input, ReservedWordUNION)[2])
    /\ out.value.left =
         ExpectedSelect(AsteriskToken, Identifier("t"),
                        [type |-> ReservedWordWHERE, value |-> PredicateOf(PredicateTokens)])
    /\ out.value.right = ExpectedSelect(AsteriskToken, Identifier("u"), Undefined)

---------------------------------------------------------------------------
(* C4 *)

\* C4: walkFrom takes the token after FROM for the source; before `AS x` the alias
\* is the name x and the cursor moves two tokens on; before a bare identifier x the
\* alias is the name x and the cursor moves one token on; otherwise there is no
\* alias and the cursor stays after the source.  The alias is a name, a string.
FromAliasIsName ==
  pc = "done" =>
    LET next == At(input, 4)
    IN /\ ~IsThrown(out.from)
       /\ out.from.node.value = input[4].value
       /\ IF TypeOf(next) = ReservedWordAS
          THEN out.from.node.alias = At(input, 5).value /\ out.from.index = 6
          ELSE IF TypeOf(next) = OtherIDENTIFIER
          THEN out.from.node.alias = next.value /\ out.from.index = 5
          ELSE IsUndefined(out.from.node.alias) /\ out.from.index = 4

=============================================================================
